---- MODULE Spec2Model ----
(***************************************************************************)
(* A model of wp-plugin-downlauditor.py: the download pass, the audit      *)
(* pass and clear-results of main(), over a remote catalog, a local        *)
(* mirror (the plugins folder) and the SQLite store (tables Plugins and    *)
(* Audit).                                                                 *)
(*                                                                         *)
(* Strings that the program compares or rewrites character by character    *)
(* (version strings) are sequences of character codes.  Timestamps are     *)
(* counted in half days, dates in days.                                    *)
(***************************************************************************)
EXTENDS Integers, Sequences, FiniteSets, Bags, TLC

\* ------------------------------------------------------------------ bounds

\* Retries of one get_wp_plugin call / one search-page request the model follows.
MaxRetries == 1
\* Runs of main() the model follows.
MaxRuns == 2
\* The day on which the runs take place (datetime.now()), in days.
Today == 1000

\* --------------------------------------------------------- program constants

\* --active-installs, default
ActiveInstallsDefault == 50
\* --last-updated, default (months)
LastUpdatedDefault == 24
\* days per month of the staleness checks
DaysPerMonth == 30
\* first sleep of get_wp_plugin and its increment
SleepStart == 10
SleepIncrement == 10

db_plugin_table == "Plugins"
db_result_table == "Audit"

\* ------------------------------------------------------------------- strings

\* "1.0", "1.2", "1.10" and a directory name that is no version ("x")
Ver10 == <<49, 46, 48>>
Ver12 == <<49, 46, 50>>
Ver110 == <<49, 46, 49, 48>>
JunkName == <<120>>

Slugs == {"alpha", "beta"}
RemoteVersions == {Ver12, Ver110}
DirNames == {Ver10, Ver12, Ver110, JunkName}

\* Python's str comparison: by code point, a proper prefix is smaller.
RECURSIVE StrLess(_, _)
StrLess(a, b) ==
    IF a = <<>> THEN b # <<>>
    ELSE IF b = <<>> THEN FALSE
    ELSE IF Head(a) # Head(b) THEN Head(a) < Head(b)
    ELSE StrLess(Tail(a), Tail(b))

\* list.sort() of a set of distinct names
RECURSIVE SortForward(_)
SortForward(S) ==
    IF S = {} THEN <<>>
    ELSE LET m == CHOOSE v \in S : \A w \in S : w = v \/ StrLess(v, w)
         IN <<m>> \o SortForward(S \ {m})

\* list.sort(reverse=True) of a set of distinct names
RECURSIVE SortReverse(_)
SortReverse(S) ==
    IF S = {} THEN <<>>
    ELSE LET m == CHOOSE v \in S : \A w \in S : w = v \/ StrLess(w, v)
         IN <<m>> \o SortReverse(S \ {m})

\* [a-zA-Z0-9._-]
SafeChar(c) ==
    \/ (c >= 97 /\ c <= 122)
    \/ (c >= 65 /\ c <= 90)
    \/ (c >= 48 /\ c <= 57)
    \/ c \in {46, 95, 45}

\* re.sub(r'[^a-zA-Z0-9._-]', '', version)
SanitizeVersion(v) == SelectSeq(v, SafeChar)

\* --------------------------------------------------------------------- time

\* datetime.now(), in half days (the runs take place in the afternoon)
Now == 2 * Today + 1

\* datetime.strptime(s, "%Y-%m-%d %I:%M%p %Z"): the 12-hour clock read into
\* half days
ParseLastUpdated(lu) == 2 * lu.day + (IF lu.pm THEN 1 ELSE 0)

\* (today - last_updated_datetime).days
DeltaDays(lu) == (Now - ParseLastUpdated(lu)) \div 2

\* datetime.now().strftime("%Y-%m-%d")
TodayDate == Now \div 2

\* ------------------------------------------------------------ remote catalog

\* last_updated as the API writes it ("YYYY-MM-DD HH:MMam/pm GMT"): a day and
\* the half of the day, or text that strptime rejects
LastUpdatedAt(d, p) == [ok |-> TRUE, day |-> d, pm |-> p]
MalformedLastUpdated == [ok |-> FALSE, day |-> 0, pm |-> FALSE]
\* added ("YYYY-MM-DD"), or text that strptime rejects
AddedOn(d) == [ok |-> TRUE, day |-> d]
MalformedAdded == [ok |-> FALSE, day |-> 0]

InstallValues(min) == {min - 1, min}
\* exactly months*30 days before now, and one day older
LastUpdatedValues(months) ==
    { LastUpdatedAt(Today - months * DaysPerMonth, TRUE),
      LastUpdatedAt(Today - months * DaysPerMonth - 1, TRUE),
      MalformedLastUpdated }

\* The JSON bodies of the 200 answers of the plugin_information query for
\* slug s: a record that passes the default filter, in each remote version and
\* with a well-formed or a malformed added date, and, in one version, every
\* other combination of the values the filter reads.
PluginInfo(s, v, n, lu, ad) ==
    [slug |-> s, version |-> v, author |-> "ann", active_installs |-> n,
     downloaded |-> n, last_updated |-> lu, added |-> ad,
     download_link |-> <<s, v>>, last_time_scanned |-> 0]
Fresh == LastUpdatedAt(Today - LastUpdatedDefault * DaysPerMonth, TRUE)
PluginInfos(s) ==
    { PluginInfo(s, v, ActiveInstallsDefault, Fresh, AddedOn(1)) : v \in RemoteVersions }
    \cup { PluginInfo(s, Ver110, ActiveInstallsDefault, Fresh, MalformedAdded) }
    \cup { PluginInfo(s, Ver110, n, lu, AddedOn(1))
           : n \in InstallValues(ActiveInstallsDefault),
             lu \in LastUpdatedValues(LastUpdatedDefault) }

NoPlugin ==
    [slug |-> "", version |-> <<>>, author |-> "", active_installs |-> 0,
     downloaded |-> 0, last_updated |-> MalformedLastUpdated,
     added |-> MalformedAdded, download_link |-> <<"", <<>>>>,
     last_time_scanned |-> 0]

\* What one requests.get of get_wp_plugin can bring: a transport failure, or a
\* status with a body; the body is JSON or not, a 404 body carries an error code
\* or none.
TransportFailure ==
    [transport |-> TRUE, status |-> 0, json |-> FALSE, error |-> "", plugin |-> NoPlugin]
Answer(st, js, err, pl) ==
    [transport |-> FALSE, status |-> st, json |-> js, error |-> err, plugin |-> pl]
\* The answers for slug s: the registry answers 404 for a slug it has closed or
\* removed and 200 for the others; any request may fail on the way, meet
\* another status, or bring a body that is no JSON.
PluginResponses(s, gone) ==
    {TransportFailure, Answer(500, FALSE, "", NoPlugin), Answer(200, FALSE, "", NoPlugin)}
    \cup IF s \in gone
         THEN { Answer(404, TRUE, e, NoPlugin) : e \in {"closed", "not_found", ""} }
              \cup { Answer(404, FALSE, "", NoPlugin) }
         ELSE { Answer(200, TRUE, "", pl) : pl \in PluginInfos(s) }

\* One turn of the while loop of get_wp_plugin on the answer resp:
\* "plugin" (return response.json()), "none" (return None) or "retry"
\* (an exception was caught: sleep, sleep += 10, loop again).
GetWpPluginTurn(resp) ==
    IF resp.transport THEN "retry"
    ELSE IF resp.status = 200 THEN (IF resp.json THEN "plugin" ELSE "retry")
    ELSE IF resp.status = 404 THEN
        \* response.json()["error"] raises on a body that is no JSON
        \* (JSONDecodeError) or has no "error" (KeyError): both are caught
        IF ~resp.json THEN "retry"
        ELSE IF resp.error = "" THEN "retry"
        ELSE IF resp.error # "closed" THEN "none"
        ELSE "none"
    ELSE "retry"

\* ---------------------------------------------------------------- the store

\* The SQLite file: the tables that exist and their committed rows.  A table
\* is a bag of rows: what keeps two rows with one key out of it is the
\* statement that inserts.
EmptyStore == [tables |-> {}, Plugins |-> EmptyBag, Audit |-> EmptyBag]
Rows(table) == BagToSet(table)
\* the rows of the table that are in the set S
SubTable(table, S) == [r \in Rows(table) \cap S |-> table[r]]

PluginKey(r) == <<r.slug, r.version>>
AuditKey(r) ==
    <<r.slug, r.version, r.file_path, r.check_id, r.start_line, r.end_line>>

\* A connection: the committed store and the connection's own view of it, which
\* differs while a transaction is open.  sqlite3 opens a transaction before an
\* INSERT, UPDATE or DELETE; CREATE TABLE runs outside of one.
Connect(store) == [store |-> store, view |-> store, failed |-> FALSE]
Commit(c) == [c EXCEPT !.store = c.view]
\* con.close(): an open transaction is rolled back
Close(c) == c.store

\* CREATE TABLE IF NOT EXISTS
CreateTableIfNotExists(store, t) == [store EXCEPT !.tables = @ \cup {t}]
create_plugins_table(store) == CreateTableIfNotExists(store, db_plugin_table)
create_audit_table(store) == CreateTableIfNotExists(store, db_result_table)

\* INSERT INTO a table that has no key
AppendRow(table, r) == table (+) SetToBag({r})
\* INSERT OR REPLACE INTO Audit: rows with the key of r are deleted first
ReplaceResultRow(table, r) ==
    SubTable(table, {q \in Rows(table) : AuditKey(q) # AuditKey(r)}) (+) SetToBag({r})

\* INSERT OR REPLACE INTO Plugins: rows with the key of r are deleted first
ReplaceRow(table, r) ==
    SubTable(table, {q \in Rows(table) : PluginKey(q) # PluginKey(r)}) (+) SetToBag({r})
\* INSERT OR IGNORE INTO Audit: nothing happens when the key of r is taken
IgnoreRow(table, r) ==
    IF \E q \in Rows(table) : AuditKey(q) = AuditKey(r) THEN table
    ELSE table (+) SetToBag({r})
\* UPDATE Plugins SET last_time_scanned = 0
ResetScanned(table) ==
    LET reset(r) == [r EXCEPT !.last_time_scanned = 0]
    IN [q \in {reset(r) : r \in Rows(table)} |->
            BagCardinality(SubTable(table, {r \in Rows(table) : reset(r) = q}))]

\* cur.execute of a statement on table t: "no such table" fails the statement
Execute(c, t, rows) ==
    IF c.failed \/ t \notin c.view.tables THEN [c EXCEPT !.failed = TRUE]
    ELSE [c EXCEPT !.view = [@ EXCEPT ![t] = rows]]

\* The row insert_plugins_row builds from a plugin record.
PluginRow(plugin) ==
    [slug |-> plugin.slug, version |-> plugin.version, author |-> plugin.author,
     active_installs |-> plugin.active_installs, downloaded |-> plugin.downloaded,
     last_updated |-> ParseLastUpdated(plugin.last_updated),
     added_date |-> plugin.added.day, download_link |-> plugin.download_link,
     last_time_scanned |-> plugin.last_time_scanned]

\* insert_plugins_row: strptime raises ValueError on a malformed date, before
\* the try; the execute and the commit are inside it.
insert_plugins_row(store, plugin) ==
    IF ~plugin.last_updated.ok \/ ~plugin.added.ok
    THEN [raised |-> TRUE, store |-> store]
    ELSE LET c == Connect(store)
             e == Execute(c, db_plugin_table, ReplaceRow(c.view.Plugins, PluginRow(plugin)))
         IN [raised |-> FALSE,
             store |-> IF e.failed THEN Close(e) ELSE Close(Commit(e))]

\* The row insert_result_row builds from one entry of the report.
ResultRow(item, slug, last_version) ==
    [slug |-> slug, version |-> last_version, file_path |-> item.path,
     check_id |-> item.check_id, severity |-> item.severity,
     impact |-> item.impact, likelihood |-> item.likelihood,
     confidence |-> item.confidence, start_line |-> item.start,
     end_line |-> item.end, vuln_lines |-> item.lines, message |-> item.message,
     date_discovered |-> TodayDate, triaged |-> FALSE]

insert_result_row(store, item, slug, last_version) ==
    LET c == Connect(store)
        e == Execute(c, db_result_table,
                     IgnoreRow(c.view.Audit, ResultRow(item, slug, last_version)))
    IN IF e.failed THEN Close(e) ELSE Close(Commit(e))

\* for item in json_content["results"]: insert_result_row(...)
RECURSIVE IngestResults(_, _, _, _)
IngestResults(store, results, slug, last_version) ==
    IF results = <<>> THEN store
    ELSE IngestResults(insert_result_row(store, Head(results), slug, last_version),
                       Tail(results), slug, last_version)

\* main(), --clear-results: two statements on one connection, then con.close()
\* with no commit in between.
ClearResultsStore(store) ==
    LET c == Connect(store)
        d == Execute(c, db_result_table, EmptyBag)
        u == Execute(d, db_plugin_table, ResetScanned(d.view.Plugins))
    IN Close(u)

\* ------------------------------------------------------------ local mirror

\* download_dir/plugins: the slug directories that exist, and their
\* subdirectories, each with whether a semgrep-scan folder was made in it and
\* whether it holds all the files of its archive.
SubDir(s, n, sc) == [slug |-> s, name |-> n, scanned |-> sc, complete |-> TRUE]
\* a directory that extractall was writing when the process was terminated
PartialDir(s, n, sc) == [slug |-> s, name |-> n, scanned |-> sc, complete |-> FALSE]
\* the slug as a directory name: "alpha", "beta"
SlugName(s) == IF s = "alpha" THEN <<97, 108, 112, 104, 97>> ELSE <<98, 101, 116, 97>>
SubDirNames(mirror, s) == {d.name : d \in {e \in mirror.subdirs : e.slug = s}}
\* os.path.exists(version_path)
VersionExists(mirror, s, v) == v \in SubDirNames(mirror, s)

\* What requests.get(download_link) and zipfile can bring: a zip with one
\* directory named after the slug, a failed download, no zip, a zip with another
\* top directory, a zip with files only, and a zip of the first kind whose
\* extraction the operator cuts short by terminating the process.
ArchiveKinds == {"good", "httperror", "notzip", "badtop", "flat", "interrupted"}

\* save_plugin without the check of version_path
save_plugin_always(mirror, plugin, archive) ==
    LET slug == plugin.slug
        version == SanitizeVersion(plugin.version)
    IN IF archive \in {"httperror", "notzip"}
       THEN [ret |-> "1", mirror |-> mirror]
       ELSE IF archive = "good"
       THEN [ret |-> "0",
             mirror |-> [slugdirs |-> mirror.slugdirs \cup {slug},
                         subdirs |-> mirror.subdirs \cup {SubDir(slug, version, FALSE)}]]
       ELSE [ret |-> "raise",
             mirror |-> [mirror EXCEPT !.slugdirs = @ \cup {slug}]]

\* save_plugin: 0 (saved, or the version directory exists), 1 (download or unzip
\* failed), "raise": os.rename found no directory named after the slug, or
\* "killed": the process was terminated during extractall.  extractall writes
\* into plugin_path/slug, over what an interrupted run left there; os.rename
\* moves whatever plugin_path/slug is to version_path.
save_plugin(mirror, plugin, archive) ==
    LET slug == plugin.slug
        version == SanitizeVersion(plugin.version)
        top == {d \in mirror.subdirs : d.slug = slug /\ d.name = SlugName(slug)}
        junk == IF archive = "badtop" /\ ~VersionExists(mirror, slug, JunkName)
                THEN {SubDir(slug, JunkName, FALSE)} ELSE {}
        with(dirs) == [slugdirs |-> mirror.slugdirs \cup {slug}, subdirs |-> dirs]
    IN IF VersionExists(mirror, slug, version)
       THEN [ret |-> "0", mirror |-> mirror]
       ELSE IF archive \in {"httperror", "notzip"}
       THEN [ret |-> "1", mirror |-> mirror]
       ELSE IF archive = "interrupted"
       THEN [ret |-> "killed",
             mirror |-> with(IF top = {}
                             THEN mirror.subdirs \cup {PartialDir(slug, SlugName(slug), FALSE)}
                             ELSE mirror.subdirs)]
       ELSE IF archive = "good"
       THEN [ret |-> "0",
             mirror |-> with((mirror.subdirs \ top)
                             \cup {SubDir(slug, version, \E d \in top : d.scanned)})]
       ELSE IF top = {}
       THEN [ret |-> "raise", mirror |-> with(mirror.subdirs \cup junk)]
       ELSE [ret |-> "0",
             mirror |-> with((mirror.subdirs \ top)
                             \cup {[d EXCEPT !.name = version] : d \in top}
                             \cup junk)]

\* -------------------------------------------------------------------- state

VARIABLES
    closed,     \* the slugs the registry has closed or removed
    pc,         \* where main() is: "idle" between runs, ..., "crashed"
    args,       \* the command line of the run
    runs,       \* runs started so far
    db,         \* the SQLite file
    fs,         \* download_dir/plugins
    enum,       \* download pass, filtered mode: page, total_pages, total_plugins
    slug_list,  \* download pass: slug_list; audit pass: the names of plugins
    idx,        \* position of the for loop in slug_list
    sleep,      \* get_wp_plugin: sleep
    response,   \* get_wp_plugin: response, while the call lasts; the answer
                \* to an enumeration request that ended the run
    cur,        \* the loop body's locals for the entity at hand
    before      \* history: the store and the plugins folder as they were when
                \* the run, and then each turn of its for loop, began

vars == <<closed, pc, args, runs, db, fs, enum, slug_list, idx, sleep, response, cur, before>>

Modes == {"download", "audit", "both"}
NoArgs ==
    [mode |-> "download", clear_results |-> FALSE, sqlite_db |-> FALSE,
     author |-> "", last_updated |-> LastUpdatedDefault,
     active_installs |-> ActiveInstallsDefault]
\* --last-updated as the operator may give it
LastUpdatedChoices == {LastUpdatedDefault, LastUpdatedDefault + 1}
ArgChoices ==
    { [mode |-> m, clear_results |-> c, sqlite_db |-> d, author |-> a,
       last_updated |-> lu,
       active_installs |-> ActiveInstallsDefault]
      : m \in Modes, c \in BOOLEAN, d \in BOOLEAN, a \in {"", "ann"},
        lu \in LastUpdatedChoices }

NoEnum == [page |-> 0, total_pages |-> 0, total_plugins |-> 0]
NoCur ==
    [slug |-> "", plugin |-> NoPlugin, outcome |-> "", version |-> <<>>,
     report |-> <<>>]

\* Plugins folders that earlier download passes have left: alpha in three
\* versions, beta in none (its archive had no top directory) or in one, or
\* alpha in three versions and the directory of an extraction cut short.
AlphaDirs ==
    {SubDir("alpha", Ver10, FALSE), SubDir("alpha", Ver12, FALSE),
     SubDir("alpha", Ver110, FALSE)}
EmptyMirror == [slugdirs |-> {}, subdirs |-> {}]
InitialMirrors ==
    { [slugdirs |-> {"alpha", "beta"}, subdirs |-> AlphaDirs],
      [slugdirs |-> {"alpha", "beta"},
       subdirs |-> AlphaDirs \cup {SubDir("beta", Ver110, FALSE)}],
      [slugdirs |-> {"alpha"},
       subdirs |-> AlphaDirs \cup {PartialDir("alpha", SlugName("alpha"), FALSE)}] }

NoBefore == [db |-> EmptyStore, fs |-> EmptyMirror]
NoResponse == Answer(0, FALSE, "", NoPlugin)

\* What is the same after construction in every specification.
InitProcess ==
    /\ pc = "idle"
    /\ args = NoArgs
    /\ runs = 0
    /\ db = EmptyStore
    /\ enum = NoEnum
    /\ slug_list = <<>>
    /\ idx = 0
    /\ sleep = SleepStart
    /\ response = NoResponse
    /\ cur = NoCur
    /\ before = NoBefore

\* After construction: an empty store and an empty plugins folder; the registry
\* has closed beta.
Init ==
    /\ InitProcess
    /\ closed = {"beta"}
    /\ fs = EmptyMirror

\* An empty store beside a plugins folder that earlier runs have filled; the
\* registry has closed beta since.
InitAudit ==
    /\ InitProcess
    /\ closed = {"beta"}
    /\ fs \in InitialMirrors

\* The process ends: its locals are gone.
Ended ==
    /\ pc' = "idle"
    /\ args' = NoArgs
    /\ enum' = NoEnum
    /\ slug_list' = <<>>
    /\ idx' = 0
    /\ sleep' = SleepStart
    /\ response' = NoResponse
    /\ cur' = NoCur
    /\ before' = NoBefore

\* main(): parse_arguments, the --clear-results block, then the first pass;
\* choices are the command lines the operator may give
Start(choices) ==
    /\ pc = "idle"
    /\ runs < MaxRuns
    /\ runs' = runs + 1
    /\ before' = [db |-> db, fs |-> fs]
    /\ \E a \in choices :
        /\ args' = a
        /\ db' = IF a.clear_results /\ a.sqlite_db THEN ClearResultsStore(db) ELSE db
        /\ pc' = IF a.mode \in {"download", "both"} THEN "dl_begin" ELSE "au_begin"
    /\ UNCHANGED <<closed, fs, enum, slug_list, idx, sleep, response, cur>>

\* An uncaught exception, or the operator, ended the run.
Crashed ==
    /\ pc \in {"crashed", "killed"}
    /\ Ended
    /\ UNCHANGED <<closed, runs, db, fs>>

\* ------------------------------------------------------------ download pass

SlugLists ==
    {<<>>} \cup { <<a>> : a \in Slugs } \cup { <<a, b>> : a \in Slugs, b \in Slugs }

\* get_slugs_from_svn: the slugs of the listing on a 200 answer, None on any
\* other status and on a transport failure
ListingResponses ==
    { [ok |-> FALSE, transport |-> t, slugs |-> <<>>] : t \in BOOLEAN }
    \cup { [ok |-> TRUE, transport |-> FALSE, slugs |-> l] : l \in SlugLists }

\* One answer of the query_plugins request of get_slugs_from_svn_wp_api.
SearchResponses ==
    { [kind |-> k, pages |-> 0, results |-> 0, has_plugins |-> FALSE, slugs |-> <<>>]
      : k \in {"transport", "status", "notjson"} }
    \cup { [kind |-> "json", pages |-> np, results |-> nr, has_plugins |-> hp, slugs |-> <<a>>]
           : np \in 1..2, nr \in 0..1, hp \in BOOLEAN, a \in Slugs }

\* get_slugs_from_svn_wp_api on one answer: "retry" (RequestException caught,
\* sleep 3, loop), "none" (return None), "data" (return response.json())
SearchTurn(resp) ==
    IF resp.kind \in {"transport", "notjson"} THEN "retry"
    ELSE IF resp.kind = "status" THEN "none"
    ELSE "data"

\* The checks with the comparisons turned strict.
FilterOutcomeStrict(plugin, last_updated, active_installs) ==
    IF ~plugin.last_updated.ok THEN "bad_date"
    ELSE IF DeltaDays(plugin.last_updated) >= last_updated * DaysPerMonth THEN "stale"
    ELSE IF plugin.active_installs <= active_installs THEN "few_installs"
    ELSE "admitted"

\* The checks of download_plugins on the plugin record: the branch taken.
FilterOutcome(plugin, last_updated, active_installs) ==
    IF ~plugin.last_updated.ok THEN "bad_date"
    ELSE IF DeltaDays(plugin.last_updated) > last_updated * DaysPerMonth THEN "stale"
    ELSE IF plugin.active_installs < active_installs THEN "few_installs"
    ELSE "admitted"

\* download_plugins up to the enumeration: the plugins folder, the connection
\* and the table, then the bulk listing or the first search request
DownloadBegin ==
    /\ pc = "dl_begin"
    /\ db' = IF args.sqlite_db THEN create_plugins_table(db) ELSE db
    /\ IF args.author = ""
       THEN \E r \in ListingResponses :
            IF ~r.ok
            THEN \* len(None)
                 /\ pc' = "crashed"
                 /\ response' = IF r.transport THEN TransportFailure
                                 ELSE Answer(500, FALSE, "", NoPlugin)
                 /\ UNCHANGED <<slug_list, idx>>
            ELSE /\ slug_list' = r.slugs
                 /\ idx' = 1
                 /\ pc' = IF Len(r.slugs) = 0 THEN "dl_end" ELSE "dl_loop"
                 /\ UNCHANGED response
       ELSE /\ pc' = "dl_enum"
            /\ UNCHANGED <<slug_list, idx, response>>
    /\ UNCHANGED <<closed, before, args, runs, fs, enum, sleep, cur>>

\* after the page loop: if total_plugins == 0: return
AfterPages(total_plugins) == IF total_plugins = 0 THEN "dl_end" ELSE "dl_loop"

\* a request of get_slugs_from_svn_wp_api that raised RequestException
DownloadEnumRetry ==
    /\ pc = "dl_enum"
    /\ \E r \in SearchResponses : SearchTurn(r) = "retry"
    /\ UNCHANGED vars

\* the first call (page=1): total_pages and total_plugins
DownloadEnumFirst ==
    /\ pc = "dl_enum"
    /\ enum.page = 0
    /\ \E r \in SearchResponses :
        /\ SearchTurn(r) # "retry"
        /\ IF SearchTurn(r) = "none"
           THEN \* data["info"] on None
                /\ pc' = "crashed"
                /\ response' = Answer(500, FALSE, "", NoPlugin)
                /\ UNCHANGED enum
           ELSE /\ enum' = [page |-> 1, total_pages |-> r.pages, total_plugins |-> r.results]
                /\ pc' = "dl_enum"
                /\ UNCHANGED response
    /\ idx' = 1
    /\ UNCHANGED <<closed, before, args, runs, db, fs, slug_list, sleep, cur>>

\* one turn of the page loop
DownloadEnumPage ==
    /\ pc = "dl_enum"
    /\ enum.page >= 1
    /\ \E r \in SearchResponses :
        /\ SearchTurn(r) # "retry"
        /\ IF SearchTurn(r) = "none" \/ ~r.has_plugins
           THEN \* data["plugins"] on None, or on a body without "plugins"
                /\ pc' = "crashed"
                /\ response' = IF SearchTurn(r) = "none"
                                 THEN Answer(500, FALSE, "", NoPlugin)
                                 ELSE Answer(200, TRUE, "", NoPlugin)
                /\ UNCHANGED <<enum, slug_list>>
           ELSE /\ slug_list' = slug_list \o r.slugs
                /\ enum' = [enum EXCEPT !.page = @ + 1]
                /\ pc' = IF enum.page = enum.total_pages
                         THEN AfterPages(enum.total_plugins) ELSE "dl_enum"
                /\ UNCHANGED response
    /\ UNCHANGED <<closed, before, args, runs, db, fs, idx, sleep, cur>>

\* a turn of get_wp_plugin's loop that ended in an except branch
DownloadRetry ==
    /\ pc = "dl_loop"
    /\ sleep < SleepStart + MaxRetries * SleepIncrement
    /\ \E r \in PluginResponses(slug_list[idx], closed) :
        /\ GetWpPluginTurn(r) = "retry"
        /\ response' = r
    /\ sleep' = sleep + SleepIncrement
    /\ UNCHANGED <<closed, before, pc, args, runs, db, fs, enum, slug_list, idx, cur>>

\* The archives to tell apart for the plugin: one, when save_plugin does the
\* same whatever the link serves.
ArchivesFor(mirror, turn, plugin, a) ==
    IF /\ turn = "plugin"
       /\ FilterOutcome(plugin, a.last_updated, a.active_installs) = "admitted"
       /\ \E k \in ArchiveKinds :
            save_plugin(mirror, plugin, k) # save_plugin(mirror, plugin, "good")
    THEN ArchiveKinds ELSE {"good"}

\* one turn of the for loop, from the answer get_wp_plugin returns on
DownloadEntity ==
    /\ pc = "dl_loop"
    /\ \E r \in PluginResponses(slug_list[idx], closed) :
       \E archive \in ArchivesFor(fs, GetWpPluginTurn(r), r.plugin, args) :
        LET slug == slug_list[idx]
            turn == GetWpPluginTurn(r)
            plugin == r.plugin
            check == FilterOutcome(plugin, args.last_updated, args.active_installs)
            saved == save_plugin(fs, plugin, archive)
            ins == insert_plugins_row(db, plugin)
            outcome ==
                IF turn = "none" THEN "none"
                ELSE IF check # "admitted" THEN check
                ELSE IF saved.ret = "killed" THEN "save_killed"
                ELSE IF saved.ret = "raise" THEN "save_raised"
                ELSE IF saved.ret = "1" THEN "save_failed"
                ELSE IF ~args.sqlite_db THEN "saved"
                ELSE IF ins.raised THEN "insert_raised"
                ELSE "recorded"
        IN /\ turn # "retry"
           /\ cur' = [NoCur EXCEPT !.slug = slug, !.plugin = plugin, !.outcome = outcome]
           /\ fs' = IF outcome \in {"save_killed", "save_raised", "saved",
                                     "insert_raised", "recorded"}
                    THEN saved.mirror ELSE fs
           /\ db' = IF outcome = "recorded" THEN ins.store ELSE db
           /\ IF outcome \in {"save_killed", "save_raised", "insert_raised"}
              THEN /\ pc' = IF outcome = "save_killed" THEN "killed" ELSE "crashed"
                   /\ UNCHANGED idx
              ELSE /\ idx' = idx + 1
                   /\ pc' = IF idx = Len(slug_list) THEN "dl_end" ELSE "dl_loop"
    /\ sleep' = SleepStart
    /\ response' = NoResponse
    /\ before' = [db |-> db, fs |-> fs]
    /\ UNCHANGED <<closed, args, runs, enum, slug_list>>

\* the end of download_plugins (con.close()), and what main() does next
DownloadEnd ==
    /\ pc = "dl_end"
    /\ IF args.mode = "both"
       THEN /\ pc' = "au_begin"
            /\ before' = before
            /\ enum' = NoEnum
            /\ slug_list' = <<>>
            /\ idx' = 0
            /\ sleep' = SleepStart
            /\ cur' = NoCur
            /\ UNCHANGED <<args, response>>
       ELSE Ended
    /\ UNCHANGED <<closed, runs, db, fs>>

\* --------------------------------------------------------------- audit pass

\* months of the threshold of get_filtered_plugins
FilterMonths == 24

\* author LIKE '%' + author + '%'
Like(author, value) == author = "" \/ author = value

\* get_filtered_plugins: the rows the SELECT returns (one slug for each)
get_filtered_plugins(store, author, last_updated, active_installs) ==
    SubTable(store.Plugins,
        { r \in Rows(store.Plugins) :
            /\ Like(author, r.author)
            /\ r.last_updated >= Now - 2 * FilterMonths * DaysPerMonth
            /\ r.active_installs >= active_installs })

\* slug, n times
RECURSIVE Repeat(_, _)
Repeat(x, n) == IF n = 0 THEN <<>> ELSE <<x>> \o Repeat(x, n - 1)

\* for item in plugins_folder: for slug in plugins_slugs: if item.name == slug[0]
RECURSIVE SelectDirs(_, _)
SelectDirs(order, rows) ==
    IF order = <<>> THEN <<>>
    ELSE Repeat(Head(order),
                BagCardinality(SubTable(rows, {r \in Rows(rows) : r.slug = Head(order)})))
         \o SelectDirs(Tail(order), rows)

\* os.scandir(plugins): the slug directories, in any order
ScanDirOrders(mirror) ==
    { o \in SlugLists : Len(o) = Cardinality(mirror.slugdirs)
                        /\ {o[i] : i \in 1..Len(o)} = mirror.slugdirs }

\* The entries of a semgrep report: two for one location, with another
\* severity and message, and one for another location.
Item(path, line, sev, msg) ==
    [path |-> path, check_id |-> "rule", start |-> line, end |-> line,
     severity |-> sev, impact |-> "LOW", likelihood |-> "LOW", confidence |-> "LOW",
     lines |-> "code", message |-> msg]
ItemA1 == Item("a.php", 1, "WARNING", "m1")
ItemA2 == Item("a.php", 1, "ERROR", "m2")
ItemB == Item("b.php", 2, "WARNING", "m1")

\* What subprocess.run(semgrep) leaves: an exit code and a JSON file.
ScanOutcomes ==
    { [exit |-> 1, json |-> FALSE, results |-> <<>>],
      [exit |-> 0, json |-> FALSE, results |-> <<>>] }
    \cup { [exit |-> 0, json |-> TRUE, results |-> rs]
           : rs \in {<<>>, <<ItemA1>>, <<ItemA2>>, <<ItemA1, ItemB>>} }

\* os.makedirs(scan_result_folder, exist_ok=True)
MakeScanFolder(mirror, s, v) ==
    [mirror EXCEPT !.subdirs =
        {IF d.slug = s /\ d.name = v THEN [d EXCEPT !.scanned = TRUE] ELSE d : d \in @}]

\* audit_plugins up to the for loop: the connection, the tables, the
\* selection of the directories
AuditBegin ==
    /\ pc = "au_begin"
    /\ db' = IF args.sqlite_db THEN create_audit_table(create_plugins_table(db)) ELSE db
    /\ \E order \in ScanDirOrders(fs) :
        LET selected ==
                IF args.sqlite_db
                THEN SelectDirs(order, get_filtered_plugins(db', args.author,
                                    args.last_updated, args.active_installs))
                ELSE <<>>
            plugins == IF Len(selected) = 0 THEN order ELSE selected
        IN /\ slug_list' = plugins
           /\ idx' = 1
           /\ pc' = IF Len(plugins) = 0 THEN "au_end" ELSE "au_loop"
    /\ UNCHANGED <<closed, before, args, runs, fs, enum, sleep, response, cur>>

\* the turn with no except branch for CalledProcessError
AuditScanUncaught ==
    /\ pc = "au_loop"
    /\ LET slug == slug_list[idx]
           versions == SortReverse(SubDirNames(fs, slug))
       IN IF versions = <<>>
          THEN /\ pc' = "crashed"
               /\ UNCHANGED <<fs, idx, cur>>
          ELSE LET local_last_version == Head(versions)
               IN /\ fs' = MakeScanFolder(fs, slug, local_last_version)
                  /\ \E out \in ScanOutcomes :
                      /\ cur' = [NoCur EXCEPT !.slug = slug,
                                              !.version = local_last_version,
                                              !.outcome = IF out.exit # 0 THEN "semgrep_failed"
                                                          ELSE IF out.json THEN "scanned"
                                                          ELSE "scanned_badjson",
                                              !.report = out.results]
                      /\ IF out.exit # 0
                         THEN /\ pc' = "crashed"
                              /\ UNCHANGED idx
                         ELSE IF args.sqlite_db
                         THEN /\ pc' = "au_fetch"
                              /\ UNCHANGED idx
                         ELSE /\ idx' = idx + 1
                              /\ pc' = IF idx = Len(slug_list) THEN "au_end" ELSE "au_loop"
    /\ before' = [db |-> db, fs |-> fs]
    /\ UNCHANGED <<closed, args, runs, db, enum, slug_list, sleep, response>>

\* one turn of the for loop up to get_wp_plugin: the latest version, the
\* semgrep-scan folder, semgrep
AuditScan ==
    /\ pc = "au_loop"
    /\ LET slug == slug_list[idx]
           versions == SortReverse(SubDirNames(fs, slug))
       IN IF versions = <<>>
          THEN \* versions[0]
               /\ pc' = "crashed"
               /\ UNCHANGED <<fs, idx, cur>>
          ELSE LET local_last_version == Head(versions)
               IN /\ fs' = MakeScanFolder(fs, slug, local_last_version)
                  /\ \E out \in ScanOutcomes :
                      /\ cur' = [NoCur EXCEPT !.slug = slug,
                                              !.version = local_last_version,
                                              !.outcome = IF out.exit # 0 THEN "semgrep_failed"
                                                          ELSE IF out.json THEN "scanned"
                                                          ELSE "scanned_badjson",
                                              !.report = out.results]
                      /\ IF out.exit = 0 /\ args.sqlite_db
                         THEN /\ pc' = "au_fetch"
                              /\ UNCHANGED idx
                         ELSE /\ idx' = idx + 1
                              /\ pc' = IF idx = Len(slug_list) THEN "au_end" ELSE "au_loop"
    /\ before' = [db |-> db, fs |-> fs]
    /\ UNCHANGED <<closed, args, runs, db, enum, slug_list, sleep, response>>

\* a turn of get_wp_plugin's loop that ended in an except branch
AuditRetry ==
    /\ pc = "au_fetch"
    /\ sleep < SleepStart + MaxRetries * SleepIncrement
    /\ \E r \in PluginResponses(cur.slug, closed) :
        /\ GetWpPluginTurn(r) = "retry"
        /\ response' = r
    /\ sleep' = sleep + SleepIncrement
    /\ UNCHANGED <<closed, before, pc, args, runs, db, fs, enum, slug_list, idx, cur>>

\* plugin['version'] = local_last_version; plugin['last_time_scanned'] = today
ScannedPluginRemoteVersion(plugin, local_last_version) ==
    [plugin EXCEPT !.last_time_scanned = TodayDate]
ScannedPlugin(plugin, local_last_version) ==
    [plugin EXCEPT !.version = local_last_version, !.last_time_scanned = TodayDate]

\* the rest of the turn, from the answer get_wp_plugin returns on: the
\* catalog rows, then the report
AuditIngest ==
    /\ pc = "au_fetch"
    /\ \E r \in PluginResponses(cur.slug, closed) :
        LET turn == GetWpPluginTurn(r)
            plugin == r.plugin
            L == cur.version
            newer == plugin.version # L
            ins1 == IF newer THEN insert_plugins_row(db, plugin)
                    ELSE [raised |-> FALSE, store |-> db]
            ins2 == insert_plugins_row(ins1.store, ScannedPlugin(plugin, L))
            outcome ==
                IF turn = "none" THEN "unexpected"
                ELSE IF ins1.raised \/ ins2.raised THEN "unexpected"
                ELSE IF cur.outcome = "scanned_badjson" THEN "bad_json"
                ELSE "ingested"
        IN /\ turn # "retry"
           /\ cur' = [cur EXCEPT !.plugin = plugin, !.outcome = outcome]
           /\ db' = IF turn = "none" \/ ins1.raised THEN db
                    ELSE IF ins2.raised THEN ins1.store
                    ELSE IF outcome = "bad_json" THEN ins2.store
                    ELSE IngestResults(ins2.store, cur.report, cur.slug, L)
    /\ idx' = idx + 1
    /\ pc' = IF idx = Len(slug_list) THEN "au_end" ELSE "au_loop"
    /\ sleep' = SleepStart
    /\ response' = NoResponse
    /\ UNCHANGED <<closed, before, args, runs, fs, enum, slug_list>>

\* the end of audit_plugins (con.close()) and of main()
AuditEnd ==
    /\ pc = "au_end"
    /\ Ended
    /\ UNCHANGED <<closed, runs, db, fs>>

\* The operator marks a finding as triaged, between two runs.
Triage ==
    /\ pc = "idle"
    /\ \E r \in Rows(db.Audit) :
        /\ ~r.triaged
        /\ db' = [db EXCEPT !.Audit = SubTable(@, Rows(@) \ {r})
                                        (+) SetToBag({[r EXCEPT !.triaged = TRUE]})]
    /\ UNCHANGED <<closed, before, pc, args, runs, fs, enum, slug_list, idx, sleep, response, cur>>

\* ----------------------------------------------------------- specifications

\* Runs of the download pass alone.
DownloadArgs == {a \in ArgChoices : a.mode = "download" /\ ~a.clear_results}
StartDownload == Start(DownloadArgs)

NextDownload ==
    \/ StartDownload
    \/ Crashed
    \/ DownloadBegin
    \/ DownloadEnumRetry
    \/ DownloadEnumFirst
    \/ DownloadEnumPage
    \/ DownloadRetry
    \/ DownloadEntity
    \/ DownloadEnd

SpecDownload == Init /\ [][NextDownload]_vars

\* Runs of the audit pass alone, with and without --clear-results, on the
\* mirrors a download pass leaves.
AuditArgs == {a \in ArgChoices : a.mode = "audit" /\ a.author = ""}
StartAudit == Start(AuditArgs)

NextAudit ==
    \/ StartAudit
    \/ Crashed
    \/ AuditBegin
    \/ AuditScan
    \/ AuditRetry
    \/ AuditIngest
    \/ AuditEnd
    \/ Triage

SpecAudit == InitAudit /\ [][NextAudit]_vars

\* Runs that download and then audit, and runs that download, with a store.
RescanArgs ==
    {a \in ArgChoices : /\ a.mode \in {"both", "download"}
                        /\ a.sqlite_db
                        /\ ~a.clear_results
                        /\ a.author = ""
                        /\ a.last_updated = LastUpdatedDefault}
StartRescan == Start(RescanArgs)

NextRescan ==
    \/ StartRescan
    \/ Crashed
    \/ DownloadBegin
    \/ DownloadRetry
    \/ DownloadEntity
    \/ DownloadEnd
    \/ AuditBegin
    \/ AuditScan
    \/ AuditRetry
    \/ AuditIngest
    \/ AuditEnd

SpecRescan == Init /\ [][NextRescan]_vars

\* ------------------------------------------------------------------- claims

\* C1: a finding the operator has marked triaged stays as it is, in every
\* column, when a later audit turn ingests a report entry with the same
\* (slug, version, file, rule, start line, end line), and the table keeps
\* one row under that key.
C1_TriagedFindingKept ==
    (pc \in {"au_loop", "au_end"} /\ cur.outcome = "ingested") =>
        \A i \in 1..Len(cur.report) :
            \A old \in Rows(before.db.Audit) :
                (/\ old.triaged
                 /\ AuditKey(old) = AuditKey(ResultRow(cur.report[i], cur.slug, cur.version)))
                => /\ CopiesIn(old, db.Audit) = 1
                   /\ \A q \in Rows(db.Audit) : AuditKey(q) = AuditKey(old) => q = old

\* a report was ingested that offers a triaged finding again, with another
\* severity
C1_Witness ==
    /\ pc \in {"au_loop", "au_end"}
    /\ cur.outcome = "ingested"
    /\ \E i \in 1..Len(cur.report) : \E old \in Rows(before.db.Audit) :
        /\ old.triaged
        /\ AuditKey(old) = AuditKey(ResultRow(cur.report[i], cur.slug, cur.version))
        /\ old.severity # cur.report[i].severity
        /\ old \in Rows(db.Audit)

\* C2: after --clear-results the findings table has no row and every catalog
\* row has last_time_scanned = 0, its other columns as they were.
C2_ClearResultsClears ==
    (pc \in {"dl_begin", "au_begin"} /\ args.clear_results /\ args.sqlite_db) =>
        /\ db.Audit = EmptyBag
        /\ db.Plugins = ResetScanned(before.db.Plugins)

\* C3: a download turn that finds the catalog row its remote data give
\* already in the table (an earlier pass saw the same data) leaves the table
\* as it was, with one row for each (slug, version).
C3_SecondPassSameRows ==
    (/\ pc \in {"dl_loop", "dl_end"}
     /\ cur.outcome = "recorded"
     /\ BagIn(PluginRow(cur.plugin), before.db.Plugins))
    => /\ db.Plugins = before.db.Plugins
       /\ \A r \in Rows(db.Plugins) :
            /\ CopiesIn(r, db.Plugins) = 1
            /\ \A q \in Rows(db.Plugins) : PluginKey(q) = PluginKey(r) => q = r

\* the second pass has recorded a plugin whose row the first pass wrote
C3_Witness ==
    /\ runs = 2
    /\ pc \in {"dl_loop", "dl_end"}
    /\ cur.outcome = "recorded"
    /\ BagIn(PluginRow(cur.plugin), before.db.Plugins)
    /\ BagIn(PluginRow(cur.plugin), db.Plugins)

\* C4: an audit turn that scanned local version L while the registry reports
\* M writes its finding rows with version L, gives the single catalog row
\* (slug, L) today's date as last_time_scanned, and, when M differs from L,
\* leaves the row (slug, M) with last_time_scanned = 0.
C4_ScanAttributedToLocalVersion ==
    (pc \in {"au_loop", "au_end"} /\ cur.outcome \in {"ingested", "bad_json"}) =>
        LET L == cur.version
            M == cur.plugin.version
            at(v) == {r \in Rows(db.Plugins) : r.slug = cur.slug /\ r.version = v}
        IN /\ \A r \in Rows(db.Audit) \ Rows(before.db.Audit) :
                r.slug = cur.slug /\ r.version = L
           /\ \E r \in at(L) :
                /\ at(L) = {r}
                /\ CopiesIn(r, db.Plugins) = 1
                /\ r.last_time_scanned = TodayDate
           /\ M # L => \E r \in at(M) :
                /\ at(M) = {r}
                /\ CopiesIn(r, db.Plugins) = 1
                /\ r.last_time_scanned = 0

\* a report with findings was ingested for a plugin whose remote version is
\* not the scanned one
C4_Witness ==
    /\ pc \in {"au_loop", "au_end"}
    /\ cur.outcome = "ingested"
    /\ cur.plugin.version # cur.version
    /\ Rows(db.Audit) \ Rows(before.db.Audit) # {}

\* C5: save_plugin, called for a plugin whose version directory exists,
\* leaves the plugins folder as it was and reports success.
C5_ExistingVersionKept ==
    (/\ pc \in {"dl_loop", "dl_end", "crashed"}
     /\ cur.outcome \in {"save_raised", "save_failed", "saved", "insert_raised", "recorded"}
     /\ VersionExists(before.fs, cur.plugin.slug, SanitizeVersion(cur.plugin.version)))
    => /\ fs = before.fs
       /\ cur.outcome \in {"saved", "insert_raised", "recorded"}

\* save_plugin was called for a version that was in the folder and the turn
\* went on as after a download
C5_Witness ==
    /\ pc \in {"dl_loop", "dl_end"}
    /\ cur.outcome \in {"saved", "recorded"}
    /\ VersionExists(before.fs, cur.plugin.slug, SanitizeVersion(cur.plugin.version))

\* C6: once a pass is under way, no error ends it: no run ends in an
\* uncaught exception.
C6_NoErrorAbortsAPass == pc # "crashed"

\* C7: the download filter admits a plugin (hands it to save_plugin) exactly
\* when active_installs >= the threshold and the whole days since last_updated
\* are <= months * 30; a rejected plugin gets no directory and no row in that
\* turn.
C7_FilterBoundaries ==
    (/\ pc \in {"dl_loop", "dl_end", "crashed"}
     /\ cur.outcome \notin {"", "none"}
     /\ cur.plugin.last_updated.ok)
    => LET admit ==
               /\ cur.plugin.active_installs >= args.active_installs
               /\ DeltaDays(cur.plugin.last_updated) <= args.last_updated * DaysPerMonth
       IN /\ admit <=> cur.outcome \in {"save_raised", "save_failed", "saved",
                                        "insert_raised", "recorded"}
          /\ ~admit => fs = before.fs /\ db = before.db

\* a plugin on both boundaries was admitted, saved and recorded
C7_Witness ==
    /\ pc \in {"dl_loop", "dl_end"}
    /\ cur.outcome = "recorded"
    /\ cur.plugin.active_installs = args.active_installs
    /\ DeltaDays(cur.plugin.last_updated) = args.last_updated * DaysPerMonth
    /\ VersionExists(fs, cur.slug, cur.plugin.version)
    /\ \E r \in Rows(db.Plugins) : PluginKey(r) = <<cur.slug, cur.plugin.version>>

\* C8: in a download pass over a list that holds a closed slug, the turn of a
\* slug that answers 404 changes neither the folder nor the catalog and does
\* not end the pass, and every slug that passed the filter and was downloaded
\* has its row in the catalog.
C8_ClosedSlugSkippedOthersRecorded ==
    (/\ pc \in {"dl_loop", "dl_end", "crashed"}
     /\ args.sqlite_db
     /\ \E i \in 1..Len(slug_list) : slug_list[i] \in closed)
    => /\ cur.outcome = "none" =>
            pc # "crashed" /\ fs = before.fs /\ db = before.db
       /\ cur.outcome \in {"insert_raised", "recorded"} =>
            \E r \in Rows(db.Plugins) : PluginKey(r) = <<cur.slug, cur.plugin.version>>

\* C9: get_wp_plugin answers every 404 with None: it is never in its loop,
\* sleeping before another request, after a 404.
C9_NotFoundIsNotRetried == response.status # 404

\* C10: the audit pass scans one version subdirectory of a slug, the greatest
\* in code-point string order; of "1.0", "1.2" and "1.10" it scans "1.2".
C10_ScansGreatestByStringOrder ==
    (pc \in {"au_fetch", "au_loop", "au_end"} /\ cur.slug # "") =>
        LET names == SubDirNames(fs, cur.slug)
            leq(a, b) ==
                \/ Len(a) <= Len(b) /\ \A i \in 1..Len(a) : a[i] = b[i]
                \/ \E i \in 1..Len(a) :
                    /\ i <= Len(b)
                    /\ a[i] < b[i]
                    /\ \A j \in 1..(i - 1) : a[j] = b[j]
        IN /\ cur.version \in names
           /\ \A w \in names : leq(w, cur.version)
           /\ {d.name : d \in {e \in fs.subdirs : e.slug = cur.slug /\ e.scanned}}
                = {cur.version}
           /\ names = {Ver10, Ver12, Ver110} => cur.version = Ver12

\* alpha, held in 1.0, 1.2 and 1.10, was scanned
C10_Witness ==
    /\ pc \in {"au_fetch", "au_loop", "au_end"}
    /\ cur.slug = "alpha"
    /\ SubDirNames(fs, "alpha") = {Ver10, Ver12, Ver110}
    /\ SubDir("alpha", Ver12, TRUE) \in fs.subdirs

\* C11: in the audit pass a non-zero exit of the scanner, or a report that is
\* no JSON, ends the turn of that entity only: the loop moves to the next
\* entity (or to its end after the last) and the findings table is as it was.
C11_ScannerFailureSkipsEntity ==
    [][(/\ pc \in {"au_loop", "au_fetch"}
        /\ cur'.slug = slug_list[idx]
        /\ cur'.outcome \in {"semgrep_failed", "bad_json"}
        /\ (cur' # cur \/ idx' # idx))
       => /\ idx' = idx + 1
          /\ pc' = IF idx = Len(slug_list) THEN "au_end" ELSE "au_loop"
          /\ slug_list' = slug_list
          /\ db'.Audit = db.Audit]_vars

\* the scanner failed on an entity that is not the last: the loop stands at
\* the next one
C11_Witness ==
    /\ pc = "au_loop"
    /\ cur.outcome = "semgrep_failed"
    /\ idx >= 2
    /\ idx <= Len(slug_list)
    /\ cur.slug = slug_list[idx - 1]

\* C12: in the audit pass with a store, once the turn of an entity whose
\* report parsed is over, every entry of the report has a row in the findings
\* table under (slug, L, path, check_id, start line, end line), whether
\* get_wp_plugin returned a record (with well-formed dates) of version L, of
\* another version, or None.
C12_EveryResultHasItsRow ==
    (/\ pc \in {"au_loop", "au_end"}
     /\ args.sqlite_db
     /\ cur.outcome \in {"ingested", "unexpected"}
     /\ \/ cur.plugin = NoPlugin
        \/ cur.plugin.last_updated.ok /\ cur.plugin.added.ok)
    => \A i \in 1..Len(cur.report) :
        \E r \in Rows(db.Audit) :
            AuditKey(r) = AuditKey(ResultRow(cur.report[i], cur.slug, cur.version))

\* C13: a 200 answer whose body is no JSON is not retried: get_wp_plugin is
\* never in its loop, sleeping before another request, after such an answer.
C13_ParseFailureIsNotRetried == ~(response.status = 200 /\ ~response.json)

\* C14: a transport failure of an enumeration request is retried: the run
\* never ends on the bulk listing request failing on the way.
C14_ListingTransportFailureRetried == ~(pc = "crashed" /\ response.transport)

\* C15: get_wp_plugin retries on a transport failure and on a status other
\* than 200 and 404 only, so that it returns on every 200 and on every 404
\* answer; a call starts with a wait of 10 seconds and each retry adds 10.
C15_RetriesOnlyTransientAnswers ==
    pc \in {"dl_loop", "au_fetch"} =>
        /\ response = NoResponse => sleep = SleepStart
        /\ response # NoResponse =>
            /\ sleep > SleepStart
            /\ (sleep - SleepStart) % SleepIncrement = 0
            /\ response.transport \/ response.status \notin {200, 404}

\* C16: in filtered mode a page answered 200 with a JSON body that has no
\* plugins container ends the enumeration, not the run: the slugs collected
\* so far are processed.
C16_MissingContainerEndsEnumeration ==
    ~(pc = "crashed" /\ response.status = 200 /\ response.json)

\* C17: the rows get_filtered_plugins selects for the audit pass are the
\* rows of the catalog that satisfy the predicate of the download filter with
\* the parameters of the run: author containing the author text,
\* active_installs >= the threshold, whole days since last_updated
\* <= months * 30.
C17_AuditFilterIsDownloadFilter ==
    (pc \in {"au_loop", "au_end"} /\ cur = NoCur /\ args.sqlite_db) =>
        Rows(get_filtered_plugins(db, args.author, args.last_updated,
                                  args.active_installs))
        = { r \in Rows(db.Plugins) :
              /\ Like(args.author, r.author)
              /\ r.active_installs >= args.active_installs
              /\ (Now - r.last_updated) \div 2 <= args.last_updated * DaysPerMonth }

\* C18: a directory the audit pass lists as a version and scans holds a
\* completely extracted archive, also after a run was terminated in the
\* middle of save_plugin.
C18_ScannedVersionIsComplete ==
    (pc \in {"au_fetch", "au_loop", "au_end"} /\ cur.slug # "") =>
        \A d \in fs.subdirs :
            (d.slug = cur.slug /\ d.name = cur.version) => d.complete

\* C19: the DELETE and the UPDATE of --clear-results run on tables that
\* the create-if-absent statements have created: once they have been
\* executed, both tables exist in the store.
C19_ClearResultsAfterCreate ==
    (pc \in {"dl_begin", "au_begin"} /\ args.clear_results /\ args.sqlite_db) =>
        {db_plugin_table, db_result_table} \subseteq db.tables

\* C20: a download turn that records a plugin leaves the last_time_scanned
\* an audit pass has set on a catalog row as it was.
C20_DownloadKeepsLastScanned ==
    (pc \in {"dl_loop", "dl_end"} /\ cur.outcome = "recorded") =>
        \A old \in Rows(before.db.Plugins) :
            old.last_time_scanned # 0 =>
                \E r \in Rows(db.Plugins) :
                    /\ PluginKey(r) = PluginKey(old)
                    /\ r.last_time_scanned = old.last_time_scanned

\* C21: an audit turn whose report is no JSON does not leave the catalog
\* row (slug, L) marked as scanned today: such a row has today's
\* last_time_scanned only if it had it before the turn.
C21_UnparsedScanNotMarked ==
    (pc \in {"au_loop", "au_end"} /\ cur.outcome = "bad_json") =>
        \A r \in Rows(db.Plugins) :
            (/\ r.slug = cur.slug
             /\ r.version = cur.version
             /\ r.last_time_scanned = TodayDate)
            => r \in Rows(before.db.Plugins)

\* C22: within one audit pass each slug directory is scanned at most once:
\* the list of directories the pass goes through names no slug twice.
C22_EachSlugScannedOnce ==
    pc \in {"au_loop", "au_fetch", "au_end"} =>
        \A i \in 1..Len(slug_list) : \A j \in 1..Len(slug_list) :
            slug_list[i] = slug_list[j] => i = j

====
